---- MODULE Spec2Model ----
(***************************************************************************)
(* md2markup: ConfluenceConverter.convert (src/md2markup.py).              *)
(*                                                                         *)
(* A string is a sequence of characters; a character is a one-character    *)
(* TLA+ string, except the two control characters of the placeholder       *)
(* scheme, written NUL (\x00) and SOH (\x01).  A list of lines is a        *)
(* sequence of strings.  A dict is a sequence of <<key, value>> pairs in   *)
(* insertion order (the converter never re-inserts a key).                 *)
(***************************************************************************)
EXTENDS Integers, Sequences, FiniteSets, TLC

\* ------------------------------------------------------------------------
\* Characters
\* ------------------------------------------------------------------------
NUL == "NUL"
SOH == "SOH"
LF == "\n"
CR == "\r"
\* the backtick
BT == "BT"

\* str.splitlines() boundaries present in the modelled alphabet
LineBreaks == {LF, CR}
\* regex \s on a character that is not a line boundary
Whitespace == {" ", "\t"}
DigitChars == {"0", "1", "2", "3", "4", "5", "6", "7", "8", "9"}
LetterChars == {"a", "b", "c", "d", "p", "u", "x", "y", "X"}
\* regex [\w+-]
LangChars == LetterChars \cup DigitChars \cup {"_", "+", "-"}

\* ------------------------------------------------------------------------
\* str helpers
\* ------------------------------------------------------------------------
RECURSIVE Join(_, _)
\* sep.join(parts)
Join(parts, sep) ==
    IF parts = <<>> THEN <<>>
    ELSE IF Len(parts) = 1 THEN parts[1]
    ELSE parts[1] \o sep \o Join(Tail(parts), sep)

\* s[from:] (1-based, from may be Len(s)+1)
Drop(s, from) == SubSeq(s, from, Len(s))

\* s[:n]
Take(s, n) == SubSeq(s, 1, n)

\* s.startswith(p, pos-1): p occurs in s at 1-based position pos
MatchAt(s, p, pos) ==
    /\ pos >= 1
    /\ pos + Len(p) - 1 <= Len(s)
    /\ \A k \in 1..Len(p) : s[pos + k - 1] = p[k]

\* s.find(p, from-1) + 1: first position >= from where p occurs, 0 if none
Find(s, p, from) ==
    LET hits == {q \in from..(Len(s) - Len(p) + 1) : MatchAt(s, p, q)}
    IN IF hits = {} THEN 0 ELSE CHOOSE q \in hits : \A r \in hits : q <= r

\* p in s
Contains(s, p) == Find(s, p, 1) # 0

EndsWith(s, p) == MatchAt(s, p, Len(s) - Len(p) + 1)

RECURSIVE Replace(_, _, _)
\* s.replace(key, value), key non-empty: every non-overlapping occurrence,
\* left to right
Replace(s, key, value) ==
    LET q == Find(s, key, 1)
    IN IF q = 0 THEN s
       ELSE Take(s, q - 1) \o value \o Replace(Drop(s, q + Len(key)), key, value)

RECURSIVE LStrip(_)
LStrip(s) ==
    IF s # <<>> /\ s[1] \in Whitespace THEN LStrip(Tail(s)) ELSE s

RECURSIVE RStrip(_)
\* s.rstrip()
RStrip(s) ==
    IF s # <<>> /\ s[Len(s)] \in Whitespace THEN RStrip(Take(s, Len(s) - 1)) ELSE s

\* s.strip()
Strip(s) == LStrip(RStrip(s))

\* number of leading characters of s that lie in set cs
RECURSIVE RunLen(_, _)
RunLen(s, cs) ==
    IF s # <<>> /\ s[1] \in cs THEN 1 + RunLen(Tail(s), cs) ELSE 0

RECURSIVE SplitOn(_, _)
\* s.split(ch) for a one-character separator
SplitOn(s, ch) ==
    LET q == Find(s, <<ch>>, 1)
    IN IF q = 0 THEN <<s>>
       ELSE <<Take(s, q - 1)>> \o SplitOn(Drop(s, q + 1), ch)

RECURSIVE RunLenNot(_, _)
\* number of leading characters of s that lie outside set cs
RunLenNot(s, cs) ==
    IF s # <<>> /\ s[1] \notin cs THEN 1 + RunLenNot(Tail(s), cs) ELSE 0

RECURSIVE SplitLines(_)
\* text.splitlines(): CR LF counts as one boundary, no empty last line after
\* a final boundary
SplitLines(t) ==
    LET n == RunLenNot(t, LineBreaks)
    IN IF t = <<>> THEN <<>>
       ELSE IF n = Len(t) THEN <<t>>
       ELSE LET brk == IF t[n + 1] = CR /\ n + 2 <= Len(t) /\ t[n + 2] = LF
                       THEN 2 ELSE 1
            IN <<Take(t, n)>> \o SplitLines(Drop(t, n + 1 + brk))

RECURSIVE DecStr(_)
\* the decimal digits of n >= 0, as an f-string formats it
DecStr(n) ==
    LET d == <<"0", "1", "2", "3", "4", "5", "6", "7", "8", "9">>[(n % 10) + 1]
    IN IF n < 10 THEN <<d>> ELSE DecStr(n \div 10) \o <<d>>

\* ------------------------------------------------------------------------
\* Placeholders
\* ------------------------------------------------------------------------
PH_CB == <<NUL, "C", "B">>
PH_IC == <<NUL, "I", "C">>
PH_LK == <<NUL, "L", "K">>
PH_BD == <<NUL, "B", "D">>
PH_END == <<NUL>>

\* _ph(tag, n)
Ph(tag, n) == tag \o <<SOH>> \o DecStr(n) \o PH_END

\* ------------------------------------------------------------------------
\* Line patterns (the class's compiled regexes, matched from the line start)
\* ------------------------------------------------------------------------
AllIn(s, cs) == \A k \in 1..Len(s) : s[k] \in cs

\* _FENCE_START.match(line): [ok, fence_char = group(1)[0], lang = group(2).strip()]
FenceStart(line) ==
    LET c == IF line # <<>> /\ line[1] = "~" THEN "~" ELSE BT
        k == RunLen(line, {c})
        rest == Drop(line, k + 1)
    IN [ok |-> k >= 3 /\ AllIn(rest, LangChars), fence_char |-> c, lang |-> Strip(rest)]

\* FenceClose taking a fence of either character as the closing fence
FenceCloseAny(line, c) ==
    \E d \in {BT, "~"} :
        RunLen(line, {d}) >= 3 /\ AllIn(Drop(line, RunLen(line, {d}) + 1), Whitespace)

\* re.match('^' + fence_char + '{3,}\s*$', line)
FenceClose(line, c) ==
    LET k == RunLen(line, {c})
    IN k >= 3 /\ AllIn(Drop(line, k + 1), Whitespace)

\* _TABLE_ROW.match(line)
IsTableRow(line) ==
    Len(line) >= 3 /\ line[1] = "|" /\ line[Len(line)] = "|"

\* _TABLE_SEP.match(row)
IsTableSep(row) ==
    /\ Len(row) >= 3 /\ row[1] = "|" /\ row[Len(row)] = "|"
    /\ AllIn(row, {"-", "|", " ", ":"})

\* _HEADING.match(line): [ok, level = len(group(1)), content = group(2)]
Heading(line) ==
    LET k == RunLen(line, {"#"})
        rest == Drop(line, k + 1)
        w == RunLen(rest, Whitespace)
    IN [ok |-> k >= 1 /\ k <= 6 /\ w >= 1, level |-> k, content |-> Drop(rest, w + 1)]

\* _HR.match(line)
IsHR(line) ==
    \E c \in {"*", "-", "_"} :
        LET k == RunLen(line, {c})
        IN k >= 3 /\ AllIn(Drop(line, k + 1), Whitespace)

\* _BLOCKQUOTE.match(s): [ok, content = group(1)]
Blockquote(s) ==
    [ok |-> s # <<>> /\ s[1] = ">",
     content |-> IF Len(s) >= 2 /\ s[2] \in Whitespace THEN Drop(s, 3) ELSE Drop(s, 2)]

\* _UL_ITEM.match(line): [ok, indent = len(group(1)), content = group(3)]
ULItem(line) ==
    LET ind == RunLen(line, Whitespace)
        rest == Drop(line, ind + 2)
        w == RunLen(rest, Whitespace)
    IN [ok |-> Len(line) > ind /\ line[ind + 1] \in {"-", "*", "+"} /\ w >= 1,
        indent |-> ind, content |-> Drop(rest, w + 1)]

\* _OL_ITEM.match(line): [ok, indent = len(group(1)), content = group(3)]
OLItem(line) ==
    LET ind == RunLen(line, Whitespace)
        d == RunLen(Drop(line, ind + 1), DigitChars)
        rest == Drop(line, ind + d + 2)
        w == RunLen(rest, Whitespace)
    IN [ok |-> d >= 1 /\ Len(line) > ind + d /\ line[ind + d + 1] = "." /\ w >= 1,
        indent |-> ind, content |-> Drop(rest, w + 1)]

\* _TASK_CHECKED: [ok = match(content), rest = sub('', content)]
TaskChecked(content) ==
    LET w == RunLen(Drop(content, 4), Whitespace)
    IN [ok |-> /\ Len(content) >= 4 /\ content[1] = "[" /\ content[2] \in {"x", "X"}
               /\ content[3] = "]" /\ w >= 1,
        rest |-> Drop(content, 4 + w)]

\* _TASK_UNCHECKED: [ok = match(content), rest = sub('', content)]
TaskUnchecked(content) ==
    LET w == RunLen(Drop(content, 4), Whitespace)
    IN [ok |-> MatchAt(content, <<"[", " ", "]">>, 1) /\ w >= 1,
        rest |-> Drop(content, 4 + w)]

\* ------------------------------------------------------------------------
\* Tables and list prefixes
\* ------------------------------------------------------------------------
\* _format_table_row(row, header)
FormatTableRow(row, header) ==
    LET inner0 == Strip(row)
        inner1 == IF inner0 # <<>> /\ inner0[1] = "|" THEN Tail(inner0) ELSE inner0
        inner == IF inner1 # <<>> /\ inner1[Len(inner1)] = "|"
                 THEN Take(inner1, Len(inner1) - 1) ELSE inner1
        parts == SplitOn(inner, "|")
        cells == [k \in 1..Len(parts) |-> Strip(parts[k])]
        sep == IF header THEN <<"|", "|">> ELSE <<"|">>
    IN sep \o Join(cells, sep) \o sep

\* sep_indices of _process_table, 1-based
SepIndices(rows) == {k \in 1..Len(rows) : IsTableSep(rows[k])}

RECURSIVE TableSelect(_, _, _)
\* The rows _process_table emits, in its loop order, as [idx, header]:
\* rows[:sep_idx] as headers, then the non-separator rows of
\* rows[sep_idx + 1:] as body rows; every row as a body row without a separator.
TableSelect(rows, k, sep_idx) ==
    IF k > Len(rows) THEN <<>>
    ELSE IF sep_idx = 0 THEN
        <<[idx |-> k, header |-> FALSE]>> \o TableSelect(rows, k + 1, sep_idx)
    ELSE IF k < sep_idx THEN
        <<[idx |-> k, header |-> TRUE]>> \o TableSelect(rows, k + 1, sep_idx)
    ELSE IF k = sep_idx \/ IsTableSep(rows[k]) THEN TableSelect(rows, k + 1, sep_idx)
    ELSE <<[idx |-> k, header |-> FALSE]>> \o TableSelect(rows, k + 1, sep_idx)

\* FirstSep taking the last separator row, sep_indices[-1]
LastSep(rows) ==
    IF SepIndices(rows) = {} THEN 0
    ELSE CHOOSE k \in SepIndices(rows) : \A j \in SepIndices(rows) : k >= j

\* sep_indices[0] of _process_table (0: no separator row)
FirstSep(rows) ==
    IF SepIndices(rows) = {} THEN 0
    ELSE CHOOSE k \in SepIndices(rows) : \A j \in SepIndices(rows) : k <= j

TableEmitted(rows) == TableSelect(rows, 1, FirstSep(rows))

\* _process_table(rows)
ProcessTable(rows) ==
    LET sel == TableEmitted(rows)
    IN [k \in 1..Len(sel) |-> FormatTableRow(rows[sel[k].idx], sel[k].header)]

\* _list_prefix(stack)
ListPrefix(stack) ==
    [k \in 1..Len(stack) |-> IF stack[k] = "ul" THEN "*" ELSE "#"]

\* StackResize without the pop loop of lines 233-234 and 256-257
StackResizeNoPop(stack, depth, type) ==
    [k \in 1..(IF Len(stack) > depth THEN Len(stack) ELSE depth) |->
        IF k <= Len(stack) THEN stack[k] ELSE type]

\* The two while loops of a list branch: pop down to depth entries, then
\* append the item's own type up to depth entries.
StackResize(stack, depth, type) ==
    [k \in 1..depth |-> IF k <= Len(stack) THEN stack[k] ELSE type]

\* indent // 2 + 1
Depth(indent) == indent \div 2 + 1

\* ------------------------------------------------------------------------
\* Regex substitution on a line
\* ------------------------------------------------------------------------
RECURSIVE FindAll(_, _, _)
\* pattern.finditer(s): the leftmost non-overlapping matches from pos on.
\* At(s, p) is the match starting at p: [end, g1, g2], end = 0 for none.
FindAll(At(_, _), s, pos) ==
    IF pos > Len(s) THEN <<>>
    ELSE LET m == At(s, pos)
         IN IF m.end = 0 THEN FindAll(At, s, pos + 1)
            ELSE <<[start |-> pos, end |-> m.end, g1 |-> m.g1, g2 |-> m.g2]>>
                 \o FindAll(At, s, m.end + 1)

NoMatch == [end |-> 0, g1 |-> <<>>, g2 |-> <<>>]

RECURSIVE Splice(_, _, _, _, _)
\* pattern.sub: s with the k-th match replaced by repl[k]
Splice(s, ms, repl, k, pos) ==
    IF k > Len(ms) THEN Drop(s, pos)
    ELSE SubSeq(s, pos, ms[k].start - 1) \o repl[k]
         \o Splice(s, ms, repl, k + 1, ms[k].end + 1)

\* _INLINE_CODE at p
InlineCodeAt(s, p) ==
    LET q == Find(s, <<BT>>, p + 2)
    IN IF s[p] = BT /\ p + 1 <= Len(s) /\ s[p + 1] # BT /\ q # 0
       THEN [end |-> q, g1 |-> SubSeq(s, p + 1, q - 1), g2 |-> <<>>]
       ELSE NoMatch

\* _LINK at p
LinkAt(s, p) ==
    LET q == Find(s, <<"]">>, p + 1)
        r == Find(s, <<")">>, q + 3)
    IN IF /\ s[p] = "[" /\ q # 0 /\ q + 2 <= Len(s) /\ s[q + 1] = "("
          /\ s[q + 2] # ")" /\ r # 0
       THEN [end |-> r, g1 |-> SubSeq(s, p + 1, q - 1), g2 |-> SubSeq(s, q + 2, r - 1)]
       ELSE NoMatch

\* _IMAGE at p
ImageAt(s, p) ==
    LET m == IF p + 1 <= Len(s) THEN LinkAt(s, p + 1) ELSE NoMatch
    IN IF s[p] = "!" THEN m ELSE NoMatch

\* (c{n})(.+?)\1 at p for the delimiter character c
DelimitedAt(s, p, c, n) ==
    LET d == [k \in 1..n |-> c]
        e == Find(s, d, p + n + 1)
    IN IF MatchAt(s, d, p) /\ e # 0
       THEN [end |-> e + n - 1, g1 |-> d, g2 |-> SubSeq(s, p + n, e - 1)]
       ELSE NoMatch

\* _BOLD_ITALIC at p
BoldItalicAt(s, p) ==
    IF s[p] = "*" THEN DelimitedAt(s, p, "*", 3)
    ELSE IF s[p] = "_" THEN DelimitedAt(s, p, "_", 3)
    ELSE NoMatch

\* _BOLD at p
BoldAt(s, p) ==
    IF s[p] = "*" THEN DelimitedAt(s, p, "*", 2)
    ELSE IF s[p] = "_" THEN DelimitedAt(s, p, "_", 2)
    ELSE NoMatch

\* _STRIKE at p
StrikeAt(s, p) == DelimitedAt(s, p, "~", 2)

\* a single c at position e: (?<!c)c(?!c)
LoneAt(s, e, c) ==
    /\ s[e] = c
    /\ (e = 1 \/ s[e - 1] # c)
    /\ (e = Len(s) \/ s[e + 1] # c)

\* _ITALIC at p: the content is group(1) or group(2), whichever matched
ItalicAt(s, p) ==
    LET c == s[p]
        closers == {e \in (p + 2)..Len(s) : LoneAt(s, e, c)}
        e == CHOOSE x \in closers : \A y \in closers : x <= y
    IN IF c \in {"*", "_"} /\ LoneAt(s, p, c) /\ p < Len(s) /\ closers # {}
       THEN [end |-> e, g1 |-> SubSeq(s, p + 1, e - 1), g2 |-> <<>>]
       ELSE NoMatch

RECURSIVE RestoreFrom(_, _, _)
RestoreFrom(text, placeholder_map, k) ==
    IF k > Len(placeholder_map) THEN text
    ELSE RestoreFrom(Replace(text, placeholder_map[k][1], placeholder_map[k][2]),
                     placeholder_map, k + 1)

\* _restore_placeholders(text, placeholder_map)
RestorePlaceholders(text, placeholder_map) == RestoreFrom(text, placeholder_map, 1)

\* ------------------------------------------------------------------------
\* Inline passes on one line
\* ------------------------------------------------------------------------
\* replacer of _extract_inline_code: the value stored for group(1)
InlineCodeValue(content) ==
    LET esc == IF Contains(content, <<"{">>) \/ Contains(content, <<"}">>)
               THEN Replace(Replace(content, <<"{">>, <<"&", "#", "1", "2", "3", ";">>),
                            <<"}">>, <<"&", "#", "1", "2", "5", ";">>)
               ELSE content
    IN <<"{", "{">> \o esc \o <<"}", "}">>

\* One pattern.sub whose replacer stores a value under a fresh key:
\* the new line and the grown map.  Value(m) is the value stored for match m.
Extract(At(_, _), Value(_), tag, s, map, counter) ==
    LET ms == FindAll(At, s, 1)
        keys == [k \in 1..Len(ms) |-> Ph(tag, counter + k - 1)]
    IN [line |-> Splice(s, ms, keys, 1, 1),
        map |-> map \o [k \in 1..Len(ms) |-> <<keys[k], Value(ms[k])>>]]

InlineCodeStored(m) == InlineCodeValue(m.g1)

\* _extract_inline_code(line, inline_map)
ExtractInlineCode(s, map) ==
    Extract(InlineCodeAt, InlineCodeStored, PH_IC, s, map, Len(map))

\* img_replacer: '!' + group(2) + '!'
ImageValue(m) == <<"!">> \o m.g2 \o <<"!">>

\* link_replacer: '[' + group(1) + '|' + group(2) + ']'
LinkValue(m) == <<"[">> \o m.g1 \o <<"|">> \o m.g2 \o <<"]">>

\* _extract_links(line, link_map): images first, then links
ExtractLinks(s, map) ==
    LET img == Extract(ImageAt, ImageValue, PH_LK, s, map, Len(map))
    IN Extract(LinkAt, LinkValue, PH_LK, img.line, img.map, Len(img.map))

\* store_bold('*_' + group(2) + '_*')
BoldItalicValue(m) == <<"*", "_">> \o m.g2 \o <<"_", "*">>

\* store_bold('*' + group(2) + '*')
BoldValue(m) == <<"*">> \o m.g2 \o <<"*">>

\* The bold_map of _process_inline_formatting after the bold-italic and
\* bold passes, with the line they leave
StoreBold(s) ==
    LET bi == Extract(BoldItalicAt, BoldItalicValue, PH_BD, s, <<>>, 0)
    IN Extract(BoldAt, BoldValue, PH_BD, bi.line, bi.map, Len(bi.map))

\* pattern.sub with a replacer that wraps one group: left + group + right
Wrap(At(_, _), left, right, s) ==
    LET ms == FindAll(At, s, 1)
    IN Splice(s, ms, [k \in 1..Len(ms) |-> left \o ms[k].g1 \o right], 1, 1)

StrikeContentAt(s, p) ==
    LET m == StrikeAt(s, p) IN [end |-> m.end, g1 |-> m.g2, g2 |-> <<>>]

\* _process_inline_formatting(line)
ProcessInlineFormatting(s) ==
    LET bold == StoreBold(s)
        italic == Wrap(ItalicAt, <<"_">>, <<"_">>, bold.line)
        strike == Wrap(StrikeContentAt, <<"-">>, <<"-">>, italic)
    IN RestorePlaceholders(strike, bold.map)

\* ------------------------------------------------------------------------
\* convert as a state machine
\* ------------------------------------------------------------------------
VARIABLES
    text,             \* convert's argument
    pc,               \* where convert is
    trailing_newline,
    lines,            \* the line list handed from pass to pass
    idx, counter, fence_char, lang, body_lines, code_map,   \* _extract_code_blocks
    result,           \* the pass's result list
    i, list_stack, table_buffer, content,                   \* _process_block_structure
    line_no, line, result_lines, inline_map, link_map,      \* convert's per-line loop
    output,           \* convert's return value
    origin,           \* history: for each entry of result, the index i of the
                      \* input line of the block pass it was produced from
    spans             \* history: for each code block, the 0-based indices
                      \* [open, last] of its opening and last collected line

vars == <<text, pc, trailing_newline, lines, idx, counter, fence_char, lang,
          body_lines, code_map, result, i, list_stack, table_buffer, content,
          line_no, line, result_lines, inline_map, link_map, output, origin, spans>>

fenceVars == <<idx, counter, fence_char, lang, body_lines, code_map, spans>>
blockVars == <<i, list_stack, table_buffer, content, origin>>
inlineVars == <<line_no, line, result_lines, inline_map, link_map>>

\* Locals before their function runs hold these values
Unset == <<>>

\* convert, lines 71-72, and the entry of _extract_code_blocks
ConvertStart ==
    /\ pc = "start"
    /\ trailing_newline' = EndsWith(text, <<LF>>)
    /\ lines' = SplitLines(text)
    /\ result' = <<>>
    /\ code_map' = <<>>
    /\ idx' = 0
    /\ counter' = 0
    /\ pc' = "fence"
    /\ UNCHANGED <<text, fence_char, lang, body_lines, spans, blockVars, inlineVars, output>>

\* ---- Pass 1: _extract_code_blocks ----
\* ConfluenceBlock built from lines the inline formatter has already rewritten
\* (the passes run in the wrong order)
ConfluenceBlockFormatted(lng, body) ==
    LET header == IF lng # <<>>
                  THEN <<"{", "c", "o", "d", "e", ":", "l", "a", "n", "g", "u", "a", "g", "e", "=">>
                       \o lng \o <<"}">>
                  ELSE <<"{", "c", "o", "d", "e", "}">>
        fmt == [k \in 1..Len(body) |-> ProcessInlineFormatting(body[k])]
    IN header \o <<LF>> \o Join(fmt, <<LF>>) \o <<LF, "{", "c", "o", "d", "e", "}">>

\* header + '\n' + body + '\n{code}'
ConfluenceBlock(lng, body) ==
    LET header == IF lng # <<>>
                  THEN <<"{", "c", "o", "d", "e", ":", "l", "a", "n", "g", "u", "a", "g", "e", "=">>
                       \o lng \o <<"}">>
                  ELSE <<"{", "c", "o", "d", "e", "}">>
    IN header \o <<LF>> \o Join(body, <<LF>>) \o <<LF, "{", "c", "o", "d", "e", "}">>

\* an opening fence: lines 126-130
FenceOpen ==
    /\ pc = "fence"
    /\ idx < Len(lines)
    /\ FenceStart(lines[idx + 1]).ok
    /\ fence_char' = FenceStart(lines[idx + 1]).fence_char
    /\ lang' = FenceStart(lines[idx + 1]).lang
    /\ idx' = idx + 1
    /\ body_lines' = <<>>
    /\ pc' = "body"
    /\ UNCHANGED <<text, trailing_newline, lines, counter, code_map, result, spans,
                   blockVars, inlineVars, output>>

\* the inner loop keeps a line: lines 139-140
FenceBody ==
    /\ pc = "body"
    /\ idx < Len(lines)
    /\ ~FenceClose(lines[idx + 1], fence_char)
    /\ body_lines' = Append(body_lines, lines[idx + 1])
    /\ idx' = idx + 1
    /\ UNCHANGED <<text, pc, trailing_newline, lines, counter, fence_char, lang,
                   code_map, result, spans, blockVars, inlineVars, output>>

\* the inner loop ends, at the closing fence or at the end of the input,
\* and the block is stored: lines 136-138, 142-151
FenceStore ==
    /\ pc = "body"
    /\ IF idx < Len(lines) THEN FenceClose(lines[idx + 1], fence_char) ELSE TRUE
    /\ idx' = IF idx < Len(lines) THEN idx + 1 ELSE idx
    /\ code_map' = Append(code_map, <<Ph(PH_CB, counter), ConfluenceBlock(lang, body_lines)>>)
    /\ result' = Append(result, Ph(PH_CB, counter))
    /\ counter' = counter + 1
    /\ spans' = Append(spans, [open |-> idx - Len(body_lines) - 1, last |-> idx - 1])
    /\ pc' = "fence"
    /\ UNCHANGED <<text, trailing_newline, lines, fence_char, lang, body_lines,
                   blockVars, inlineVars, output>>

\* a line outside a block: lines 153-154
FencePlain ==
    /\ pc = "fence"
    /\ idx < Len(lines)
    /\ ~FenceStart(lines[idx + 1]).ok
    /\ result' = Append(result, lines[idx + 1])
    /\ idx' = idx + 1
    /\ UNCHANGED <<text, pc, trailing_newline, lines, counter, fence_char, lang,
                   body_lines, code_map, spans, blockVars, inlineVars, output>>

\* line 156, convert line 75, and the entry of _process_block_structure
FenceReturn ==
    /\ pc = "fence"
    /\ idx >= Len(lines)
    /\ lines' = result
    /\ result' = <<>>
    /\ origin' = <<>>
    /\ i' = 0
    /\ list_stack' = <<>>
    /\ table_buffer' = <<>>
    /\ pc' = "block"
    /\ UNCHANGED <<text, trailing_newline, fenceVars, content, inlineVars, output>>

\* ---- Pass 2: _process_block_structure ----
\* The branch the loop body takes for a line: the if-chain of lines 179-268
Branch(ln) ==
    IF Contains(ln, PH_CB) THEN "placeholder"
    ELSE IF IsTableRow(ln) THEN "table"
    ELSE IF Heading(ln).ok THEN "heading"
    ELSE IF IsHR(ln) /\ ~ULItem(ln).ok /\ ~OLItem(ln).ok THEN "hr"
    ELSE IF Blockquote(ln).ok THEN "blockquote"
    ELSE IF ULItem(ln).ok THEN "ul"
    ELSE IF OLItem(ln).ok THEN "ol"
    ELSE "default"

\* flush_table(): what it appends to result
Flush(buffer) == IF buffer # <<>> THEN ProcessTable(buffer) ELSE <<>>

\* history of flush_table(): the input indices of the rows it emits, the
\* buffered rows being the Len(buffer) lines before line i
FlushOrigin(buffer, at) ==
    LET sel == IF buffer # <<>> THEN TableEmitted(buffer) ELSE <<>>
    IN [k \in 1..Len(sel) |-> at - Len(buffer) + sel[k].idx - 1]

\* Emit with the line appended before the table is flushed
EmitBeforeFlush(stack, out) ==
    /\ result' = Append(result, out) \o Flush(table_buffer)
    /\ origin' = Append(origin, i) \o FlushOrigin(table_buffer, i)
    /\ table_buffer' = <<>>
    /\ list_stack' = stack
    /\ i' = i + 1
    /\ UNCHANGED <<text, pc, trailing_newline, lines, fenceVars, content,
                   inlineVars, output>>

\* One iteration that flushes the table, empties or keeps the list stack
\* and emits one line
Emit(stack, out) ==
    /\ result' = Append(result \o Flush(table_buffer), out)
    /\ origin' = Append(origin \o FlushOrigin(table_buffer, i), i)
    /\ table_buffer' = <<>>
    /\ list_stack' = stack
    /\ i' = i + 1
    /\ UNCHANGED <<text, pc, trailing_newline, lines, fenceVars, content,
                   inlineVars, output>>

InBlockLoop == pc = "block" /\ i < Len(lines)

\* lines 179-184
BlockPlaceholder ==
    /\ InBlockLoop
    /\ Branch(lines[i + 1]) = "placeholder"
    /\ Emit(<<>>, lines[i + 1])

\* lines 187-190
BlockTableRow ==
    /\ InBlockLoop
    /\ Branch(lines[i + 1]) = "table"
    /\ table_buffer' = Append(table_buffer, lines[i + 1])
    /\ i' = i + 1
    /\ UNCHANGED <<text, pc, trailing_newline, lines, fenceVars, result, list_stack,
                   content, origin, inlineVars, output>>

\* 'h' + level + '. ' + content.rstrip()
HeadingLine(m) == <<"h">> \o DecStr(m.level) \o <<".", " ">> \o RStrip(m.content)

\* lines 195-202
BlockHeading ==
    /\ InBlockLoop
    /\ Branch(lines[i + 1]) = "heading"
    /\ Emit(<<>>, HeadingLine(Heading(lines[i + 1])))

\* lines 205-213
BlockHR ==
    /\ InBlockLoop
    /\ Branch(lines[i + 1]) = "hr"
    /\ Emit(<<>>, <<"-", "-", "-", "-">>)

\* lines 216-219: the table is flushed and the stack emptied before the
\* flattening loop runs
BlockquoteEnter ==
    /\ InBlockLoop
    /\ Branch(lines[i + 1]) = "blockquote"
    /\ result' = result \o Flush(table_buffer)
    /\ origin' = origin \o FlushOrigin(table_buffer, i)
    /\ table_buffer' = <<>>
    /\ list_stack' = <<>>
    /\ content' = Blockquote(lines[i + 1]).content
    /\ pc' = "bq"
    /\ UNCHANGED <<text, trailing_newline, lines, fenceVars, i, inlineVars, output>>

\* Unquote taking group(0), the whole match, for group(1)
UnquoteWhole(c) == c

\* the body of the flattening loop, line 222
Unquote(c) == Blockquote(c).content

\* line 221: the loop test holds
BlockquoteTest ==
    /\ pc = "bq"
    /\ Blockquote(content).ok
    /\ pc' = "bq_strip"
    /\ UNCHANGED <<text, trailing_newline, lines, fenceVars, result, blockVars,
                   inlineVars, output>>

\* line 222: the loop body
BlockquoteStrip ==
    /\ pc = "bq_strip"
    /\ content' = Unquote(content)
    /\ pc' = "bq"
    /\ UNCHANGED <<text, trailing_newline, lines, fenceVars, result, i, list_stack,
                   table_buffer, origin, inlineVars, output>>

\* lines 223-225
BlockquoteEmit ==
    /\ pc = "bq"
    /\ ~Blockquote(content).ok
    /\ result' = Append(result, <<"b", "q", ".", " ">> \o content)
    /\ origin' = Append(origin, i)
    /\ i' = i + 1
    /\ pc' = "block"
    /\ UNCHANGED <<text, trailing_newline, lines, fenceVars, list_stack, table_buffer,
                   content, inlineVars, output>>

\* The line an unordered item emits: lines 239-246
ULLine(prefix, c) ==
    IF TaskChecked(c).ok THEN prefix \o <<" ", "(", "/", ")", " ">> \o TaskChecked(c).rest
    ELSE IF TaskUnchecked(c).ok
         THEN prefix \o <<" ", "(", " ", ")", " ">> \o TaskUnchecked(c).rest
    ELSE prefix \o <<" ">> \o c

\* One list iteration: the stack after the two while loops, the store into
\* list_stack[depth - 1] (an IndexError when that index is out of range),
\* and the emitted line
ListItem(m, type, emitted(_, _)) ==
    LET depth == Depth(m.indent)
        sized == StackResize(list_stack, depth, type)
    IN IF depth \in 1..Len(sized)
       THEN LET stack == [sized EXCEPT ![depth] = type]
            IN Emit(stack, emitted(ListPrefix(SubSeq(stack, 1, depth)), m.content))
       ELSE /\ pc' = "raised"
            /\ UNCHANGED <<text, trailing_newline, lines, fenceVars, result, blockVars,
                           inlineVars, output>>

\* lines 228-248
BlockUL ==
    /\ InBlockLoop
    /\ Branch(lines[i + 1]) = "ul"
    /\ ListItem(ULItem(lines[i + 1]), "ul", ULLine)

\* prefix + ' ' + content, line 262
OLLine(prefix, c) == prefix \o <<" ">> \o c

\* lines 251-264
BlockOL ==
    /\ InBlockLoop
    /\ Branch(lines[i + 1]) = "ol"
    /\ ListItem(OLItem(lines[i + 1]), "ol", OLLine)

\* lines 267-269
BlockDefault ==
    /\ InBlockLoop
    /\ Branch(lines[i + 1]) = "default"
    /\ Emit(<<>>, lines[i + 1])

\* lines 271-272, convert line 78, and the entry of convert's loop
BlockReturn ==
    /\ pc = "block"
    /\ i >= Len(lines)
    /\ lines' = result \o Flush(table_buffer)
    /\ result' = result \o Flush(table_buffer)
    /\ origin' = origin \o FlushOrigin(table_buffer, i)
    /\ table_buffer' = <<>>
    /\ line_no' = 0
    /\ result_lines' = <<>>
    /\ inline_map' = <<>>
    /\ link_map' = <<>>
    /\ pc' = "inline"
    /\ UNCHANGED <<text, trailing_newline, fenceVars, i, list_stack, content, line, output>>

\* ---- Passes 3-6: convert's loop over the lines ----
InLineLoop == pc = "inline" /\ line_no < Len(lines)

\* lines 87-89
InlineSkip ==
    /\ InLineLoop
    /\ Contains(lines[line_no + 1], PH_CB)
    /\ result_lines' = Append(result_lines, lines[line_no + 1])
    /\ line_no' = line_no + 1
    /\ UNCHANGED <<text, pc, trailing_newline, lines, fenceVars, result, blockVars,
                   line, inline_map, link_map, output>>

\* line 92
InlineCode ==
    /\ InLineLoop
    /\ ~Contains(lines[line_no + 1], PH_CB)
    /\ line' = ExtractInlineCode(lines[line_no + 1], inline_map).line
    /\ inline_map' = ExtractInlineCode(lines[line_no + 1], inline_map).map
    /\ pc' = "links"
    /\ UNCHANGED <<text, trailing_newline, lines, fenceVars, result, blockVars,
                   line_no, result_lines, link_map, output>>

\* line 95
InlineLinks ==
    /\ pc = "links"
    /\ line' = ExtractLinks(line, link_map).line
    /\ link_map' = ExtractLinks(line, link_map).map
    /\ pc' = "format"
    /\ UNCHANGED <<text, trailing_newline, lines, fenceVars, result, blockVars,
                   line_no, result_lines, inline_map, output>>

\* line 98
InlineFormat ==
    /\ pc = "format"
    /\ line' = ProcessInlineFormatting(line)
    /\ pc' = "restore"
    /\ UNCHANGED <<text, trailing_newline, lines, fenceVars, result, blockVars,
                   line_no, result_lines, inline_map, link_map, output>>

\* lines 101-102
RestoreLine(ln, links, codes) ==
    RestorePlaceholders(RestorePlaceholders(ln, links), codes)

\* lines 101-104
InlineRestore ==
    /\ pc = "restore"
    /\ line' = RestoreLine(line, link_map, inline_map)
    /\ result_lines' = Append(result_lines, RestoreLine(line, link_map, inline_map))
    /\ line_no' = line_no + 1
    /\ pc' = "inline"
    /\ UNCHANGED <<text, trailing_newline, lines, fenceVars, result, blockVars,
                   inline_map, link_map, output>>

\* lines 107-110
FinalOutput(rlines, cmap, trailing) ==
    RestorePlaceholders(Join(rlines, <<LF>>), cmap)
        \o (IF trailing THEN <<LF>> ELSE <<>>)

\* lines 107-112
ConvertReturn ==
    /\ pc = "inline"
    /\ line_no >= Len(lines)
    /\ output' = FinalOutput(result_lines, code_map, trailing_newline)
    /\ pc' = "done"
    /\ UNCHANGED <<text, trailing_newline, lines, fenceVars, result, blockVars,
                   inlineVars>>

FencePass == FenceOpen \/ FenceBody \/ FenceStore \/ FencePlain \/ FenceReturn

BlockPass ==
    \/ BlockPlaceholder \/ BlockTableRow \/ BlockHeading \/ BlockHR
    \/ BlockquoteEnter \/ BlockquoteTest \/ BlockquoteStrip \/ BlockquoteEmit
    \/ BlockUL \/ BlockOL \/ BlockDefault \/ BlockReturn

InlinePass ==
    \/ InlineSkip \/ InlineCode \/ InlineLinks \/ InlineFormat \/ InlineRestore
    \/ ConvertReturn

Next == ConvertStart \/ FencePass \/ BlockPass \/ InlinePass

\* ------------------------------------------------------------------------
\* Inputs
\* ------------------------------------------------------------------------
\* all sequences of at most n elements of S
SeqsUpTo(S, n) == UNION {[1..k -> S] : k \in 0..n}

\* longest document, in lines
MaxLines == 3

\* The lines documents are made of: blank, text, a table separator row, a
\* table row, a fence, a heading, a rule, a nested blockquote, an unordered
\* item at indent 4, an ordered item
DocLines ==
    { <<>>,
      <<"a">>,
      <<"|", "-", "|">>,
      <<"|", "a", "|">>,
      <<BT, BT, BT>>,
      <<"#", " ", "a">>,
      <<"-", "-", "-">>,
      <<">", ">", " ", "a">>,
      <<" ", " ", " ", " ", "-", " ", "a">>,
      <<"1", ".", " ", "a">> }

\* how a document ends: without or with a line break
Endings == {<<>>, <<LF>>}

Texts == {Join(d, <<LF>>) \o e : d \in SeqsUpTo(DocLines, MaxLines), e \in Endings}

\* the state before convert(text) runs
InitWith(t) ==
    /\ text = t
    /\ pc = "start"
    /\ trailing_newline = FALSE
    /\ lines = Unset /\ result = Unset
    /\ idx = 0 /\ counter = 0 /\ fence_char = BT /\ lang = Unset
    /\ body_lines = Unset /\ code_map = Unset /\ spans = <<>>
    /\ i = 0 /\ list_stack = Unset /\ table_buffer = Unset /\ content = Unset
    /\ origin = <<>>
    /\ line_no = 0 /\ line = Unset /\ result_lines = Unset
    /\ inline_map = Unset /\ link_map = Unset
    /\ output = Unset

Init == \E t \in Texts : InitWith(t)

Spec == Init /\ [][Next]_vars

\* ---- documents with fenced code blocks ----
\* longest code block body, in lines
MaxBody == 2
\* most segments (a code block or a line outside one) of a document
MaxSegments == 2

\* One line of each kind of markup a code block may hold: heading, list
\* items, rule, table row, nested blockquote, link, inline code, bold,
\* italic, strikethrough
Sampler ==
    << <<"#", " ", "a">>,
       <<"-", " ", "a">>,
       <<"1", ".", " ", "a">>,
       <<"-", "-", "-">>,
       <<"|", "a", "|">>,
       <<">", ">", " ", "a">>,
       <<"[", "a", "]", "(", "b", ")">>,
       <<BT, "a", BT>>,
       <<"*", "*", "a", "*", "*">>,
       <<"*", "a", "*">>,
       <<"~", "~", "a", "~", "~">> >>

\* The bodies: the sampler cut into runs of MaxBody lines, and the empty body
Bodies ==
    {<<>>} \cup
    { SubSeq(Sampler, j, IF j + MaxBody - 1 < Len(Sampler) THEN j + MaxBody - 1 ELSE Len(Sampler)) :
        j \in {x \in 1..Len(Sampler) : (x - 1) % MaxBody = 0} }

\* opening fences, and for each the closing line
Openers == { <<BT, BT, BT>>, <<"~", "~", "~", "p", "y">> }
CloserOf(opener) == <<opener[1], opener[1], opener[1]>>

\* A segment is a list of lines: a closed block, an unclosed block, or one
\* line outside a block
Segments ==
    {<<o>> \o b \o <<CloserOf(o)>> : o \in Openers, b \in Bodies}
    \cup {<<o>> \o b : o \in Openers, b \in Bodies}
    \cup {<<Sampler[k]>> : k \in 1..Len(Sampler)}

RECURSIVE Concat(_)
Concat(ss) == IF ss = <<>> THEN <<>> ELSE Head(ss) \o Concat(Tail(ss))

CodeTexts == {Join(Concat(d), <<LF>>) : d \in SeqsUpTo(Segments, MaxSegments)}

InitCode == \E t \in CodeTexts : InitWith(t)

SpecCode == InitCode /\ [][Next]_vars

\* ---- the block structure pass on its own ----
\* longest document of list and table lines
MaxBlockLines == 3

\* unordered items at indents 0, 2 and 4, a task item, ordered items at
\* indents 0 and 2, a heading, a rule, a nested blockquote, a fence, table
\* rows, a table separator row, blank, text
BlockLines ==
    { <<"-", " ", "a">>,
      <<" ", " ", "-", " ", "a">>,
      <<" ", " ", " ", " ", "*", " ", "a">>,
      <<"-", " ", "[", "x", "]", " ", "a">>,
      <<"1", ".", " ", "a">>,
      <<" ", " ", "2", ".", " ", "a">>,
      <<"#", " ", "a">>,
      <<"-", "-", "-">>,
      <<">", ">", " ", "a">>,
      <<BT, BT, BT>>,
      <<"|", "a", "|">>,
      <<"|", " ", "a", " ", "|", "b", "|">>,
      <<"|", "-", "|">>,
      <<>>,
      <<"a">> }

BlockTexts == {Join(d, <<LF>>) : d \in SeqsUpTo(BlockLines, MaxBlockLines)}

InitBlock == \E t \in BlockTexts : InitWith(t)

\* convert up to the return of _process_block_structure
NextBlock == ConvertStart \/ FencePass \/ BlockPass

SpecBlock == InitBlock /\ [][NextBlock]_vars

\* ---- the code-fence extractor on its own ----
\* longest document of fence lines
MaxFenceLines == 4

\* a backtick fence, a tilde fence, a longer backtick fence, a backtick fence
\* with a trailing space, a backtick fence with a language, a tilde fence
\* followed by other text, text, two backticks
FenceLines ==
    { <<BT, BT, BT>>,
      <<"~", "~", "~">>,
      <<BT, BT, BT, BT>>,
      <<BT, BT, BT, " ">>,
      <<BT, BT, BT, "p", "y">>,
      <<"~", "~", "~", " ", "a">>,
      <<"a">>,
      <<BT, BT>> }

FenceTexts == {Join(d, <<LF>>) : d \in SeqsUpTo(FenceLines, MaxFenceLines)}

InitFence == \E t \in FenceTexts : InitWith(t)

\* convert up to the return of _extract_code_blocks
NextFence == ConvertStart \/ FencePass

SpecFence == InitFence /\ [][NextFence]_vars

\* ---- lines of nested inline markup ----
\* deepest nesting of inline markup
MaxNest == 3

\* what markup is wrapped around: text, text with braces, an image
Atoms ==
    { <<"a">>,
      <<"{", "a", "}">>,
      <<"!", "[", "a", "]", "(", "b", ")">> }

\* a url with emphasis characters
Url == <<"u", "*", "v", "*">>

\* x inside one piece of inline markup: bold with text either side,
\* bold-italic, italic, strikethrough, inline code, the text of a link
Wrappings(x) ==
    { <<"*", "*", "a", " ">> \o x \o <<" ", "c", "*", "*">>,
      <<"*", "*", "*">> \o x \o <<"*", "*", "*">>,
      <<"*">> \o x \o <<"*">>,
      <<"~", "~">> \o x \o <<"~", "~">>,
      <<BT>> \o x \o <<BT>>,
      <<"[">> \o x \o <<"]", "(">> \o Url \o <<")">> }

RECURSIVE Forms(_)
\* markup nested at most d deep
Forms(d) ==
    IF d = 0 THEN Atoms
    ELSE Atoms \cup UNION {Wrappings(x) : x \in Forms(d - 1)}

\* what a line of inline markup may stand in: nothing, a heading, list
\* items, a nested blockquote
Prefixes == { <<>>, <<"#", " ">>, <<"-", " ">>, <<"1", ".", " ">>, <<">", ">", " ">> }

\* The nested markup on a line of its own, the singly nested markup in each
\* kind of line, in a table row and in a code block, and a rule
InlineTexts ==
    Forms(MaxNest)
    \cup {p \o f : p \in Prefixes, f \in Forms(1)}
    \cup {<<"|">> \o f \o <<"|">> : f \in Forms(0)}
    \cup {<<BT, BT, BT, LF>> \o f \o <<LF, BT, BT, BT>> : f \in Forms(1)}
    \cup {<<"-", "-", "-">>}

InitInline == \E t \in InlineTexts : InitWith(t)

SpecInline == InitInline /\ [][Next]_vars

\* ------------------------------------------------------------------------
\* Claims
\* ------------------------------------------------------------------------
EndsWithLineBreak(s) == s # <<>> /\ s[Len(s)] \in LineBreaks

\* C1: when convert has returned, its output ends with a line break if and
\* only if its input does, whatever lines the input is made of (blank lines,
\* table rows and table separator rows the block pass drops included).
C1_TrailingNewlineMirrored ==
    pc = "done" => (EndsWithLineBreak(output) <=> EndsWithLineBreak(text))

Marker(type) == IF type = "ul" THEN "*" ELSE "#"

\* The step of the block pass on a list item, seen from outside: the line it
\* appends and the stack it leaves, against the stack it found.
ListStepOk ==
    LET ln == lines[i + 1]
        type == Branch(ln)
        n == IF type = "ul" THEN ULItem(ln).indent ELSE OLItem(ln).indent
        d == n \div 2 + 1
        out == result'[Len(result')]
    IN /\ Len(result') >= 1
       /\ RunLen(out, {"*", "#"}) = d
       /\ Len(out) > d /\ out[d + 1] = " "
       /\ out[d] = Marker(type)
       /\ \A k \in 1..(d - 1) : k <= Len(list_stack) => out[k] = Marker(list_stack[k])
       /\ Len(list_stack') = d
       /\ list_stack'[d] = type
       /\ \A k \in 1..(d - 1) : k <= Len(list_stack) => list_stack'[k] = list_stack[k]

\* C5: the prefix emitted for a list item with indent n has n/2+1 characters,
\* the last one * for an unordered and # for an ordered item, each earlier
\* one the marker of the type the stack held at that depth; the stack keeps
\* its entries above the item's depth and drops those below it.
C5_ListPrefix ==
    [][(InBlockLoop /\ Branch(lines[i + 1]) \in {"ul", "ol"}) => ListStepOk]_vars

\* an ordered item one level under an unordered item has been given *#
C5_Witness ==
    /\ pc = "block" /\ i = 2
    /\ Branch(lines[1]) = "ul" /\ ULItem(lines[1]).indent = 0
    /\ Branch(lines[2]) = "ol" /\ OLItem(lines[2]).indent = 2
    /\ list_stack = <<"ul", "ol">>
    /\ MatchAt(result[2], <<"*", "#", " ">>, 1)

\* The rows a flushed run is said to emit: every row that is no separator,
\* as a header row when a separator follows it somewhere and none precedes it
Kept(rows) == {k \in 1..Len(rows) : ~IsTableSep(rows[k])}
IsHeaderRow(rows, k) ==
    /\ \E j \in 1..Len(rows) : IsTableSep(rows[j])
    /\ \A j \in 1..k : ~IsTableSep(rows[j])

FlushStepOk ==
    LET rows == table_buffer
        base == Len(result)
        place(k) == base + Cardinality({x \in Kept(rows) : x <= k})
    IN /\ Len(result') - base \in {Cardinality(Kept(rows)), Cardinality(Kept(rows)) + 1}
       /\ SubSeq(result', 1, base) = result
       /\ \A k \in Kept(rows) :
            result'[place(k)] = FormatTableRow(rows[k], IsHeaderRow(rows, k))
       /\ \A k \in Kept(rows) :
            LET r == result'[place(k)]
                w == IF IsHeaderRow(rows, k) THEN <<"|", "|">> ELSE <<"|">>
            IN MatchAt(r, w, 1) /\ EndsWith(r, w)

\* C6: a flushed run with a separator row emits the rows before the first
\* separator as header rows (||), the other non-separator rows as body rows
\* (|), no separator row, in input order; a run without a separator row emits
\* every row as a body row.
C6_TableFlush ==
    [][(table_buffer # <<>> /\ table_buffer' = <<>>) => FlushStepOk]_vars

\* a run of header, separator, body has been flushed
C6_Witness ==
    /\ pc = "inline"
    /\ Len(lines) = 2
    /\ SplitLines(text) = << <<"|", "a", "|">>, <<"|", "-", "|">>, <<"|", " ", "a", " ", "|", "b", "|">> >>
    /\ lines = << <<"|", "|", "a", "|", "|">>, <<"|", "a", "|", "b", "|">> >>

\* C9: in the block pass the list stack is empty after any line that is not a
\* list item has been processed (heading, rule, blockquote, code-block
\* placeholder, table row, blank or text line).
C9_StackEmptyAfterNonList ==
    (pc = "block" /\ i >= 1 /\ Branch(lines[i]) \notin {"ul", "ol"}) => list_stack = <<>>

\* C10: the block pass keeps the order of the lines: the output lines come
\* from input lines of increasing index, a buffered table run is the lines
\* just read and everything emitted comes from before it, and the buffer is
\* empty once the pass has returned.
C10_LineOrder ==
    /\ pc \in {"block", "bq", "bq_strip"} =>
        /\ Len(origin) = Len(result)
        /\ \A a, b \in 1..Len(origin) : a < b => origin[a] < origin[b]
        /\ \A a \in 1..Len(origin) : origin[a] < i - Len(table_buffer)
        /\ Len(table_buffer) <= i
        /\ table_buffer = SubSeq(lines, i - Len(table_buffer) + 1, i)
    /\ pc = "inline" =>
        /\ table_buffer = <<>>
        /\ Len(origin) = Len(lines)
        /\ \A a, b \in 1..Len(origin) : a < b => origin[a] < origin[b]

\* a table run has been flushed ahead of the line that followed it
C10_Witness ==
    /\ pc = "block" /\ i = 3 /\ table_buffer = <<>>
    /\ origin = <<0, 2>>
    /\ Branch(lines[1]) = "table" /\ Branch(lines[2]) = "table"
    /\ Branch(lines[3]) = "heading"

CodeTag == <<"{", "c", "o", "d", "e", "}">>

\* The lines a code block of the input must come out as: its header, its
\* body lines as they stand in the input, and the closing {code}
ExpectedBlock(k) ==
    LET L == SplitLines(text)
        opener == L[spans[k].open + 1]
        lng == Drop(opener, RunLen(opener, {opener[1]}) + 1)
        header == IF lng = <<>> THEN CodeTag
                  ELSE <<"{", "c", "o", "d", "e", ":", "l", "a", "n", "g", "u", "a", "g", "e", "=">>
                       \o lng \o <<"}">>
    IN <<header>> \o SubSeq(L, spans[k].open + 2, spans[k].last + 1) \o <<CodeTag>>

\* The forms a block may come out in: the expected lines; for a block with
\* no body line, nothing or one empty line between header and closing line
Renderings(k) ==
    IF Len(ExpectedBlock(k)) = 2
    THEN {ExpectedBlock(k), <<ExpectedBlock(k)[1], <<>>, ExpectedBlock(k)[2]>>}
    ELSE {ExpectedBlock(k)}

RECURSIVE BlocksAppear(_, _, _)
\* blocks k, k+1, ... appear in the lines O, in order, from line `from` on
BlocksAppear(O, k, from) ==
    IF k > Len(spans) THEN TRUE
    ELSE \E r \in Renderings(k) : \E q \in from..Len(O) :
            /\ q + Len(r) - 1 <= Len(O)
            /\ SubSeq(O, q, q + Len(r) - 1) = r
            /\ BlocksAppear(O, k + 1, q + Len(r))

\* C2: when convert has returned, every fenced code block of the input
\* appears in the output as its header line, its body lines character for
\* character and in order, and a closing {code} line, the blocks in their
\* input order.
C2_CodeBodiesVerbatim ==
    pc = "done" => BlocksAppear(SplitLines(output), 1, 1)

\* two blocks have come out, one of them holding **a** and *a*
C2_Witness ==
    /\ pc = "done"
    /\ Len(spans) = 2
    /\ \E k \in 1..2 : spans[k].last - spans[k].open = 2
                       /\ SplitLines(text)[spans[k].open + 2] = <<"*", "*", "a", "*", "*">>
    /\ Contains(output, <<LF, "*", "*", "a", "*", "*", LF, "*", "a", "*", LF>>)

\* C3: after convert has returned the output holds no placeholder token of
\* any kind (code block, inline code, link/image, bold), also when one
\* protected span lies inside another.
C3_NoPlaceholderLeft ==
    pc = "done" => \A tag \in {PH_CB, PH_IC, PH_LK, PH_BD} : ~Contains(output, tag)

\* The links of a line as the link pass meets them: after the inline code
\* spans and the images of the line have been taken out
LinksOf(ln) ==
    LET coded == ExtractInlineCode(ln, <<>>).line
        imaged == Extract(ImageAt, ImageValue, PH_LK, coded, <<>>, 0).line
    IN FindAll(LinkAt, imaged, 1)

\* C4: for every link [text](url) on a line outside a code block, the output
\* of convert carries |url] with the url character for character as in the
\* input, whatever formatting surrounds the link.
C4_UrlVerbatim ==
    pc = "done" =>
        \A n \in 1..Len(lines) : ~Contains(lines[n], PH_CB) =>
            \A k \in 1..Len(LinksOf(lines[n])) :
                ~Contains(LinksOf(lines[n])[k].g2, <<NUL>>) =>
                    Contains(output, <<"|">> \o LinksOf(lines[n])[k].g2 \o <<"]">>)

RECURSIVE EscapeBraces(_)
\* s with { replaced by &#123; and } by &#125;
EscapeBraces(s) ==
    IF s = <<>> THEN <<>>
    ELSE (IF Head(s) = "{" THEN <<"&", "#", "1", "2", "3", ";">>
          ELSE IF Head(s) = "}" THEN <<"&", "#", "1", "2", "5", ";">>
          ELSE <<Head(s)>>) \o EscapeBraces(Tail(s))

\* C7: for every backtick-delimited span on a line outside a code block, the
\* output of convert carries {{content}}, the content being the text between
\* the backticks with only { and } replaced by &#123; and &#125;.
C7_InlineCodeKept ==
    pc = "done" =>
        \A n \in 1..Len(lines) : ~Contains(lines[n], PH_CB) =>
            \A k \in 1..Len(FindAll(InlineCodeAt, lines[n], 1)) :
                Contains(output, <<"{", "{">>
                                 \o EscapeBraces(FindAll(InlineCodeAt, lines[n], 1)[k].g1)
                                 \o <<"}", "}">>)

\* a line made of 3 or more c and then nothing but whitespace
ClosesFence(ln, c) ==
    \E n \in 3..Len(ln) :
        /\ \A k \in 1..n : ln[k] = c
        /\ \A k \in (n + 1)..Len(ln) : ln[k] \in Whitespace

\* the 1-based index of the line after block k: past its closing line when
\* it has one
AfterBlock(L, k) ==
    IF spans[k].last + 2 <= Len(L) THEN spans[k].last + 3 ELSE spans[k].last + 2

RECURSIVE Extracted(_, _, _)
\* What the extractor is said to return for the lines L from line pos on,
\* block k being the next one: one placeholder line for each block, every
\* other line as it is
Extracted(L, pos, k) ==
    IF pos > Len(L) THEN <<>>
    ELSE IF k <= Len(spans) /\ spans[k].open + 1 = pos
         THEN <<Ph(PH_CB, k - 1)>> \o Extracted(L, AfterBlock(L, k), k + 1)
         ELSE <<L[pos]>> \o Extracted(L, pos + 1, k)

\* Block k of the lines L: opened by a fence line, its body the lines up to
\* the first line that closes a fence of the opener's character or up to the
\* end of the input, the closing line not in the body
BlockOk(L, k) ==
    LET o == spans[k].open + 1
        l == spans[k].last + 1
        c == L[o][1]
        body == SubSeq(L, o + 1, l)
        stored == SplitLines(code_map[k][2])
    IN /\ FenceStart(L[o]).ok
       /\ c \in {BT, "~"}
       /\ \A j \in (o + 1)..l : ~ClosesFence(L[j], c)
       /\ l < Len(L) => ClosesFence(L[l + 1], c)
       /\ k > 1 => o >= AfterBlock(L, k - 1)
       /\ code_map[k][1] = Ph(PH_CB, k - 1)
       /\ IF body = <<>> THEN Len(stored) \in {2, 3}
          ELSE SubSeq(stored, 2, Len(stored) - 1) = body

\* the lines outside every block
Outside(L) ==
    {j \in 1..Len(L) : \A k \in 1..Len(spans) : j < spans[k].open + 1 \/ j >= AfterBlock(L, k)}

\* C11: when the code-fence extractor has returned, every block was opened
\* by a fence line and closed only by the first following line of 3 or more
\* of the opener's fence character plus optional trailing whitespace (a fence
\* of the other character or a fence line with other text is body), the
\* closing line is consumed and not in the body, an unclosed block runs to
\* the end of the input, each block is exactly one placeholder line and each
\* line outside a block is passed through unchanged.
C11_FenceExtraction ==
    (pc = "block" /\ i = 0 /\ result = <<>>) =>
        /\ \A k \in 1..Len(spans) : BlockOk(SplitLines(text), k)
        /\ \A j \in Outside(SplitLines(text)) : ~FenceStart(SplitLines(text)[j]).ok
        /\ Len(code_map) = Len(spans)
        /\ lines = Extracted(SplitLines(text), 1, 1)

\* a backtick block holding a tilde fence has been closed by a backtick
\* fence with a trailing space, and the text line after it passed through
C11_Witness ==
    /\ pc = "block" /\ i = 0
    /\ SplitLines(text) = << <<BT, BT, BT>>, <<"~", "~", "~">>, <<BT, BT, BT, " ">>, <<"a">> >>
    /\ spans = <<[open |-> 0, last |-> 1]>>
    /\ lines = <<Ph(PH_CB, 0), <<"a">> >>

\* C12: when convert has returned, the line emitted for every unordered list
\* item starts with the list prefix the block pass computed for it (one * or
\* # per nesting level) followed by a space, whatever * or ** markup the
\* item holds: the bold, bold-italic and italic passes leave the prefix alone.
C12_ListPrefixKept ==
    pc = "done" =>
        \A n \in 1..Len(lines) :
            LET ln == Extracted(SplitLines(text), 1, 1)[origin[n] + 1]
                d == ULItem(ln).indent \div 2 + 1
            IN Branch(ln) = "ul" =>
                /\ Len(result_lines[n]) > d
                /\ \A k \in 1..d : result_lines[n][k] \in {"*", "#"}
                /\ result_lines[n][d + 1] = " "
                /\ SubSeq(result_lines[n], 1, d) = SubSeq(lines[n], 1, d)

\* How far convert is: the pass, the lines the pass has left, and the
\* position within the work on one line
Variant ==
    IF pc = "start" THEN <<5, 0, 0>>
    ELSE IF pc \in {"fence", "body"}
         THEN <<4, Len(lines) - idx, IF pc = "body" THEN 1 ELSE 0>>
    ELSE IF pc = "block"
         THEN <<3, Len(lines) - i, IF i < Len(lines) THEN 2 * Len(lines[i + 1]) + 2 ELSE 0>>
    ELSE IF pc \in {"bq", "bq_strip"}
         THEN <<3, Len(lines) - i, 2 * Len(content) + (IF pc = "bq" THEN 1 ELSE 0)>>
    ELSE IF pc \in {"inline", "links", "format", "restore"}
         THEN <<2, Len(lines) - line_no,
                IF pc = "inline" THEN 3 ELSE IF pc = "links" THEN 2
                ELSE IF pc = "format" THEN 1 ELSE 0>>
    ELSE <<1, 0, 0>>

\* lexicographic order on triples of naturals
LexLess(a, b) ==
    \/ a[1] < b[1]
    \/ a[1] = b[1] /\ a[2] < b[2]
    \/ a[1] = b[1] /\ a[2] = b[2] /\ a[3] < b[3]

\* C8: convert terminates and returns without raising for every input:
\* every step of the fence scan, of the block structure loop and of the
\* blockquote flattening loop brings convert strictly nearer its return (a
\* well-founded measure decreases), and no step raises.
C8_Terminates ==
    [][/\ LexLess(Variant', Variant)
       /\ \A k \in 1..3 : Variant'[k] >= 0
       /\ pc' # "raised"]_vars

\* convert has returned for a list item at indent 4 as the first line, then
\* a table run of a separator row only, then a fence that is never closed
C8_Witness ==
    /\ pc = "done"
    /\ SplitLines(text) = << <<" ", " ", " ", " ", "-", " ", "a">>, <<"|", "-", "|">>, <<BT, BT, BT>> >>
    /\ output = <<"*", "*", "*", " ", "a", LF>> \o CodeTag \o <<LF, LF>> \o CodeTag

====
